---- MODULE Spec2Model ----
(***************************************************************************)
(* TPM wrapper service: the transport server (ipc_server.py), the command  *)
(* dispatcher and its three handlers, and the key manager / credential     *)
(* activation engine (tpm_manager.py), over a TPM whose primitives may     *)
(* each succeed or fail.                                                   *)
(*                                                                         *)
(* A connection is one coroutine.  conn[c].pc is its position; `running`   *)
(* is the coroutine the event loop is executing (0: the loop is idle), and *)
(* a coroutine gives the loop back only where the code awaits.             *)
(***************************************************************************)
EXTENDS Integers, Sequences, FiniteSets, TLC

\* ------------------------------------------------------------------ bounds
\* Connections accepted over a run of the server.
MaxConns == 2
\* Bytes (tokens) the clients deliver over a run, all connections together.
MaxBytes == 4
\* Tokens one read() may return.
MaxChunk == 2

Conns == 1..MaxConns

\* ------------------------------------------------------- bytes on the wire
\* "J" stands for payload bytes of a frame, "CR" for '\r', "NL" for '\n'.
Tokens == {"J", "CR", "NL"}

RECURSIVE SeqsUpTo(_)
SeqsUpTo(n) ==
    IF n = 0 THEN {<<>>}
    ELSE LET shorter == SeqsUpTo(n - 1)
         IN shorter \cup {Append(s, t) : s \in {x \in shorter : Len(x) = n - 1}, t \in Tokens}

Chunks == SeqsUpTo(MaxChunk) \ {<<>>}

\* What one reader.read(4096) / ReadFile gives: data, b'' at end of stream, or
\* an exception.
ReadResults ==
    {[kind |-> "data", data |-> ch] : ch \in Chunks}
        \cup {[kind |-> "eof", data |-> <<>>], [kind |-> "error", data |-> <<>>]}

HasNewline(message) == \E i \in 1..Len(message) : message[i] = "NL"

\* message.index('\n'): the first newline.
NewlineIdx(message) ==
    CHOOSE i \in 1..Len(message) :
        message[i] = "NL" /\ \A j \in 1..(i - 1) : message[j] # "NL"

RECURSIVE LStripCR(_)
LStripCR(s) ==
    IF s # <<>> /\ Head(s) = "CR" THEN LStripCR(Tail(s)) ELSE s

RECURSIVE RStripCR(_)
RStripCR(s) ==
    IF s # <<>> /\ s[Len(s)] = "CR" THEN RStripCR(SubSeq(s, 1, Len(s) - 1)) ELSE s

\* str.strip('\r'): carriage returns removed at both ends.
StripCR(s) == RStripCR(LStripCR(s))

\* message[:newline_idx].strip('\r')
RequestFrame(message) == StripCR(SubSeq(message, 1, NewlineIdx(message) - 1))

\* message[newline_idx + 1:]
Remainder(message) == SubSeq(message, NewlineIdx(message) + 1, Len(message))

\* ---------------------------------------------------------------- requests
AllFields == {"credential_blob", "encrypted_secret", "hmac", "enc"}

\* The handler checks three of the four fields only.
RequiredFieldsNoBlob == {"encrypted_secret", "hmac", "enc"}

\* ['credential_blob', 'encrypted_secret', 'hmac', 'enc']
RequiredFields == {"credential_blob", "encrypted_secret", "hmac", "enc"}

\* The fields the handler passes to base64.b64decode, in the order it does.
DecodedFields == <<"encrypted_secret", "hmac", "enc">>

DecodedFieldSet == {DecodedFields[i] : i \in 1..Len(DecodedFields)}

KnownCommands == {"getEK", "getAttestationData", "activateCredential"}

\* The bytes the credential_blob field of a request encodes, unless the
\* request is given others.
DefaultBlob == <<"credential_blob">>

NoReq ==
    [json |-> "none", command |-> "", fields |-> {}, undecodable |-> {},
     blob |-> DefaultBlob]

\* A frame json.loads rejects.
InvalidJson == [NoReq EXCEPT !.json = "invalid"]

\* A frame that is valid JSON but not an object (a list, a number, a string).
NonObject == [NoReq EXCEPT !.json = "nonobject"]

Obj(cmd, f, u) ==
    [json |-> "object", command |-> cmd, fields |-> f, undecodable |-> u,
     blob |-> DefaultBlob]

\* What a frame can parse to.  "<absent>" is an object without a command key
\* (command.get gives None); "reboot" stands for every other command value.
Requests ==
    {InvalidJson, NonObject}
        \cup {Obj(cmd, {}, {}) : cmd \in {"getEK", "getAttestationData", "<absent>", "reboot"}}
        \cup {Obj("activateCredential", f, {}) : f \in SUBSET AllFields}
        \cup {Obj("activateCredential", AllFields, u) : u \in SUBSET DecodedFieldSet}

\* json.loads(json_str): the empty frame is never valid JSON; payload bytes
\* can spell any request.
Parse(frame) ==
    IF \A i \in 1..Len(frame) : frame[i] # "J" THEN {InvalidJson}
    ELSE Requests

\* -------------------------------------------------------------- exceptions
NoExc == [cls |-> "none", msg |-> ""]
JsonError == [cls |-> "JSONDecodeError", msg |-> "Expecting value"]
AttrError == [cls |-> "AttributeError", msg |-> "object has no attribute 'get'"]
B64Error == [cls |-> "binascii.Error", msg |-> "Incorrect padding"]
TpmError(op) == [cls |-> "TSS2_Exception", msg |-> op]

\* Every class raised here derives from Exception.
ExceptionSubclasses ==
    {"JSONDecodeError", "AttributeError", "binascii.Error", "TSS2_Exception",
     "OSError", "ValueError"}

\* ---------------------------------------------------------------- envelopes
NoResp == [status |-> "none"]
\* An error envelope that drops its message.
ErrorEnvelopeBare(message) == [status |-> "error"]

\* {'status': 'error', 'message': ...}
ErrorEnvelope(message) == [status |-> "error", message |-> message]

\* --------------------------------------------------------------------- TPM
NoHandle == [kind |-> "none", id |-> <<>>]
\* ESYS_TR.ENDORSEMENT: the hierarchy itself, not a loaded object.
Endorsement == [kind |-> "hierarchy", id |-> <<>>]

NoPublic == [modulus |-> <<>>, exponent |-> 0]

\* The TPM's endorsement key, as ReadPublic / CreatePrimary report it: the
\* template asks for exponent 0.
EkPublicArea == [modulus |-> <<0, 1, 1>>, exponent |-> 0]

\* The secret ActivateCredential releases.
Secret == <<"s">>

\* No template: the argument recorded for every call but CreatePrimary.
NoTemplate == [type |-> "none", exponent |-> 0, unique |-> <<>>]

\* The template every request builds its own unique field into.
EkTemplatePerRequest(c) == [type |-> "RSA", exponent |-> 0, unique |-> <<0, c>>]

\* ek_template: TPMT_PUBLIC(type=RSA, .., exponent=0, unique=bytes(256)),
\* built anew, from constants only, by the request of connection c.
EkTemplate(c) == [type |-> "RSA", exponent |-> 0, unique |-> <<0, 0>>]

\* aik_template: TPMT_PUBLIC(type=ECC, .., unique=(bytes(32), bytes(32))),
\* built from constants only; CreatePrimary gets no sensitive data and no
\* outside information with it.
AikTemplate == [type |-> "ECC", exponent |-> 0, unique |-> <<0, 0>>]

\* TPM2_CreatePrimary derives the key from the hierarchy's primary seed and
\* the template: the same template gives the same key, another unique field
\* another key.  The standard EK template gives EkPublicArea.
PrimaryUnique(t) == <<0, 1, 1 + t.unique[Len(t.unique)]>>

\* The public area CreatePrimary returns for an RSA template.
PrimaryPublic(t) == [modulus |-> PrimaryUnique(t), exponent |-> t.exponent]

\* The name of an object: the name algorithm (SHA256, 0x000B) and the digest
\* of its public area, a function of the public area alone.
NameOf(t) == <<11>> \o PrimaryUnique(t)

VARIABLES
    platform,   \* "unix" | "windows": platform_utils.is_windows()
    svc,        \* TpmWrapperService: "starting" | "listening" | "failed"
    running,    \* the connection whose coroutine the event loop runs; 0: none
    conn,       \* per connection: the locals of its handler coroutine
    wire,       \* bytes the clients have delivered so far, all connections
    tpmSeq,     \* owners of the TPM primitive calls, in order, runs merged
    tpm_ctx,    \* self.tpm_ctx: "none" | "connected" | "unavailable" | "closed"
    served,     \* what the responses written so far carried (history)
    pipe,       \* per connection: bytes the client has sent, not yet read
    call        \* the locals of a read_ek_cert_from_nv call followed step by step

vars == <<platform, svc, running, conn, wire, tpmSeq, tpm_ctx, served, pipe, call>>

\* Nothing served yet.
NoneServed == [ek_public |-> {}, aik_name |-> {}, activated |-> {}]

Fresh ==
    [pc |-> "idle",
     buffer |-> <<>>,            \* buffer
     received |-> <<>>,          \* every byte read() has returned (history)
     request |-> <<>>,           \* request: the frame handed to _handle_request
     nDispatched |-> 0,          \* calls of _handle_request (history)
     nEnvelopes |-> 0,           \* returns of _handle_request (history)
     nWritten |-> 0,             \* response frames written (history)
     req |-> NoReq,              \* command
     ek_handle |-> NoHandle,
     ek_public |-> NoPublic,     \* ek_public_dict
     ek_cert |-> FALSE,          \* ek_cert is not None
     aik_handle |-> NoHandle,
     aik_name |-> <<>>,
     policy_session |-> NoHandle,
     pending |-> NoExc,          \* the exception in flight through `finally`
     decrypted_secret |-> <<>>,
     resp |-> NoResp,            \* the envelope _handle_request returned
     log |-> <<>>]               \* TPM primitive calls of this request

\* The TPM calls are awaited too, run in the executor like the pipe reads.
AwaitPointsTpmInExecutor ==
    {"read", "drain", "ek_readpublic", "ek_create", "ek_nv", "flush_ek",
     "aik_create", "aik_getname", "flush_aik", "ac_start", "ac_policy",
     "ac_activate", "ac_finally"}

\* The places where the coroutine awaits: reader.read / ReadFile in the
\* executor, and writer.drain / WriteFile in the executor.  _handle_request
\* is a plain function: no await between its first and last statement.
AwaitPoints == {"read", "drain"}

\* The loop serves the connections one after the other, in the order it
\* accepted them.
RunsInAcceptOrder(c) ==
    /\ running = c \/ (running = 0 /\ conn[c].pc \in AwaitPoints)
    /\ \A d \in Conns : d < c => conn[d].pc = "closed"

\* c may take its next step: the loop is running it, or the loop is idle and
\* c waits at an await.
Runs(c) ==
    \/ running = c
    \/ running = 0 /\ conn[c].pc \in AwaitPoints

\* Who the loop runs after c's step left c at position p.
Sched(c, p) == IF p \in AwaitPoints \cup {"closed"} THEN 0 ELSE c

\* The handler coroutine is over and nothing has closed the channel.
LeftOpen(rec) == [Fresh EXCEPT !.pc = "open"]

\* The handler coroutine is over: its locals are gone.  The way out is
\* through `finally: writer.close()` / `finally: CloseHandle(pipe_handle)`.
Closed(rec) == [Fresh EXCEPT !.pc = "closed"]

\* _handle_request has returned and its response is on the wire: the locals
\* of the request are dead.  The read loop keeps what follows the newline
\* (buffer = message[newline_idx + 1:]); nothing reads the buffer between the
\* write and that assignment.
Responded(rec) ==
    [Fresh EXCEPT !.pc = "drain", !.buffer = Remainder(rec.buffer),
                  !.nEnvelopes = rec.nEnvelopes, !.nWritten = rec.nWritten + 1,
                  !.nDispatched = rec.nDispatched]

\* The service after construction, before start().
ServerInit ==
    /\ platform \in {"unix", "windows"}
    /\ svc = "starting"
    /\ running = 0
    /\ conn = [c \in Conns |-> Fresh]
    /\ wire = 0
    /\ tpmSeq = <<>>
    /\ tpm_ctx = "none"
    /\ served = NoneServed
    /\ pipe = [c \in Conns |-> <<>>]

\* No read_ek_cert_from_nv call is followed.
NoCall == [pc |-> "none"]

Init == ServerInit /\ call = NoCall

\* ------------------------------------------------------ dispatcher helpers
\* `except Exception` of _handle_request, narrowed to the parser's error.
RequestCatchesJsonOnly(cls) == cls = "JSONDecodeError"

\* `except Exception` of _handle_request, narrowed so the parser's error is
\* not covered.
RequestCatchesNotJson(cls) == cls \in ExceptionSubclasses \ {"JSONDecodeError"}

\* `except Exception as e` of _handle_request.
RequestCatches(cls) == cls \in ExceptionSubclasses

\* `except Exception as e` of the three handlers.
HandlerCatches(cls) == cls \in ExceptionSubclasses

\* The handlers' FlushContext calls with no except clause around them.
FlushCatchesNothing(cls) == FALSE

\* `except Exception as e` around the handlers' FlushContext calls.
FlushCatches(cls) == cls \in ExceptionSubclasses

\* The if / elif chain with the final else falling into getEK.
RouteDefaultGetEK(cmd) ==
    CASE cmd = "getAttestationData" -> "ek_readpublic"
      [] cmd = "activateCredential" -> "ac_fields"
      [] OTHER -> "ek_readpublic"

\* A request without a command is taken for getEK.
RouteAbsentGetEK(cmd) ==
    CASE cmd \in {"getEK", "<absent>"} -> "ek_readpublic"
      [] cmd = "getAttestationData" -> "ek_readpublic"
      [] cmd = "activateCredential" -> "ac_fields"
      [] OTHER -> "unknown"

\* The if / elif chain on cmd: where the request goes next.
Route(cmd) ==
    CASE cmd = "getEK" -> "ek_readpublic"
      [] cmd = "getAttestationData" -> "ek_readpublic"
      [] cmd = "activateCredential" -> "ac_fields"
      [] OTHER -> "unknown"

\* _handle_request returns an envelope.
Return(rec, env) ==
    [rec EXCEPT !.resp = env, !.nEnvelopes = @ + 1, !.pc = "respond"]

\* An exception reaches _handle_request's own except clause; one it does not
\* catch leaves the dispatcher.
RaiseInRequest(rec, e) ==
    IF RequestCatches(e.cls)
    THEN Return(rec, ErrorEnvelope(<<e.msg>>))
    ELSE [rec EXCEPT !.pc = "escaped"]

\* The message a handler's except clause puts in the envelope.
HandlerErrorEnvelope(cmd, e) ==
    IF cmd = "activateCredential"
    THEN ErrorEnvelope(<<"ActivateCredential failed: ", e.msg>>)
    ELSE ErrorEnvelope(<<e.msg>>)

\* An exception reaches the handler's except clause.
RaiseInHandler(rec, e) ==
    IF HandlerCatches(e.cls)
    THEN Return(rec, HandlerErrorEnvelope(rec.req.command, e))
    ELSE RaiseInRequest(rec, e)

\* ------------------------------------------------------------- TPM helpers
Logged(rec, op, h, ok) ==
    [rec EXCEPT !.log = Append(@, [op |-> op, h |-> h, ok |-> ok, arg |-> NoTemplate])]

\* A CreatePrimary call, with the template it was given.
LoggedCreate(rec, t, h, ok) ==
    [rec EXCEPT !.log = Append(@, [op |-> "CreatePrimary", h |-> h, ok |-> ok, arg |-> t])]

Touch(c) ==
    IF tpmSeq # <<>> /\ tpmSeq[Len(tpmSeq)] = c THEN tpmSeq ELSE Append(tpmSeq, c)

\* The handle of an earlier request's object, handed out again.
NewHandleOfFirstRequest(c, kind) == [kind |-> kind, id |-> <<1, Len(conn[c].log) + 1>>]

\* The handle CreatePrimary / StartAuthSession returns: one the TPM has not
\* handed out before (the n-th call of connection c's request).
NewHandle(c, kind) == [kind |-> kind, id |-> <<c, Len(conn[c].log) + 1>>]

\* ---------------------------------------------------------------- encodings
RECURSIVE IntFromBytes(_)
\* int.from_bytes(modulus, byteorder='big', signed=False)
IntFromBytes(b) ==
    IF b = <<>> THEN 0
    ELSE 256 * IntFromBytes(SubSeq(b, 1, Len(b) - 1)) + b[Len(b)]

\* base64.b64encode(..).decode('ascii'): the text that decodes to `bytes`.
B64Encode(bytes) == [b64 |-> bytes]

\* JSON null.
Null == [null |-> TRUE]

\* The exporter puts 65537 in every key.
DefaultExponentAlways(exponent) == 65537

\* if exponent == 0: exponent = 65537
DefaultExponent(exponent) == IF exponent = 0 THEN 65537 ELSE exponent

\* export_rsa_ek_to_base64_x509: the DER SubjectPublicKeyInfo of (n, e).
ExportRsaEkToBase64X509(modulus, exponent) ==
    B64Encode([n |-> IntFromBytes(modulus), e |-> DefaultExponent(exponent)])

\* base64.b64decode(text): the bytes the text encodes.
B64Decode(text) == text.b64

\* The bytes a client put, base64-encoded, in field f of its request: each
\* field has bytes of its own.
FieldBytes(f) == <<f>>

\* command[f]
Field(req, f) ==
    IF f = "credential_blob" THEN B64Encode(req.blob) ELSE B64Encode(FieldBytes(f))

\* The blob put together the other way round.
CredentialBlobEncFirst(hmac, enc) == enc \o hmac

\* credential_blob = hmac + enc
CredentialBlob(hmac, enc) == hmac \o enc

\* The credential_blob of the request is what ActivateCredential is given.
ActivateArgsFromBlob(req) ==
    [credential_blob |-> B64Decode(Field(req, "credential_blob")),
     encrypted_secret |-> B64Decode(Field(req, "encrypted_secret"))]

\* What _handle_activate_credential hands to activate_credential, and that
\* to ctx.ActivateCredential, as credential_blob and encrypted_secret.
ActivateArgs(req) ==
    [credential_blob |-> CredentialBlob(B64Decode(Field(req, "hmac")),
                                        B64Decode(Field(req, "enc"))),
     encrypted_secret |-> B64Decode(Field(req, "encrypted_secret"))]

\* ctx.ActivateCredential(aik_handle, ek_handle, policy_session, ..,
\* credential_blob, encrypted_secret)
LoggedActivate(rec, h, ok) ==
    [rec EXCEPT !.log = Append(@, [op |-> "ActivateCredential", h |-> h, ok |-> ok,
                                   arg |-> ActivateArgs(rec.req)])]

\* The certificate field filled in whether or not a certificate was read.
CertFieldAlways(rec) == B64Encode(<<"cert-der">>)

\* result['ek_cert']: None, replaced by the DER in base64 `if ek_cert`.
CertField(rec) == IF rec.ek_cert THEN B64Encode(<<"cert-der">>) ELSE Null

GetEkEnvelope(rec) ==
    [status |-> "ok",
     ek_public |-> ExportRsaEkToBase64X509(rec.ek_public.modulus, rec.ek_public.exponent),
     ek_cert |-> CertField(rec)]

AttestationEnvelope(rec) ==
    [status |-> "ok",
     ek_pub |-> ExportRsaEkToBase64X509(rec.ek_public.modulus, rec.ek_public.exponent),
     ek_cert |-> CertField(rec),
     aik_name |-> B64Encode(rec.aik_name)]

ActivateEnvelope(rec) ==
    [status |-> "ok", decrypted_secret |-> B64Encode(rec.decrypted_secret)]

\* --------------------------------------------------------------- transport
\* The read loop goes on after a response (no `break`).
NoBreakAfterResponse == FALSE

\* The `break` that ends the read loop once a response has been written.
BreakAfterResponse == TRUE

\* The server is built and started whatever get_tpm_context did.
StartListeningAlways(ok) == "listening"

\* start(): self.tpm_ctx = get_tpm_context() comes first in the try block; an
\* exception there leaves the block before IPCServer is built and started.
StartListening(ok) == IF ok THEN "listening" ELSE "failed"

\* A failure while a connection is handled takes the accept loop down.
TransportCatchesNothing(cls) == FALSE

\* `except Exception` of the connection handlers, and the one the named pipe's
\* accept loop has around the handler.
TransportCatches(cls) == cls \in ExceptionSubclasses

\* The accept loop after a connection has ended, with a failure or without.
AcceptLoopAfter(s, failure) ==
    IF failure /\ ~TransportCatches("OSError") THEN "stopped" ELSE s

\* What the response of `rec`, once written, adds to the record of responses.
Serve(rec) ==
    IF rec.resp.status # "ok" THEN served
    ELSE CASE rec.req.command = "getEK" ->
                [served EXCEPT !.ek_public = @ \cup {rec.resp.ek_public}]
           [] rec.req.command = "getAttestationData" ->
                [served EXCEPT !.aik_name = @ \cup {rec.resp.aik_name}]
           [] OTHER ->
                [served EXCEPT !.activated =
                    @ \cup {[aik |-> rec.aik_handle, session |-> rec.policy_session]}]

\* TpmWrapperService.start: get_tpm_context(), then IPCServer.start_listening
\* (which may itself fail to bind the socket or create the pipe).
StartService ==
    /\ svc = "starting"
    /\ \E ok \in BOOLEAN, bound \in BOOLEAN :
        /\ tpm_ctx' = IF ok THEN "connected" ELSE "unavailable"
        /\ svc' = IF bound THEN StartListening(ok) ELSE "failed"
    /\ UNCHANGED <<pipe, call, platform, running, conn, wire, tpmSeq, served>>

\* A client connects.  The named pipe serves one client at a time: the accept
\* loop awaits the handler.  The socket server starts a handler per client.
Accept(c) ==
    /\ svc = "listening"
    /\ running = 0
    /\ conn[c].pc = "idle"
    /\ \A d \in Conns : d < c => conn[d].pc # "idle"
    /\ platform = "windows" => \A d \in Conns : conn[d].pc \in {"idle", "closed"}
    /\ conn' = [conn EXCEPT ![c].pc = "read"]
    /\ UNCHANGED <<pipe, call, platform, svc, running, wire, tpmSeq, tpm_ctx, served>>

\* One pass of the read loop: data = await read(4096), and, when the buffer
\* holds a newline, the frame before it goes to _handle_request.  `results`
\* is what the client and the channel can make the read return.
\* At the end of the stream what the buffer holds is handled as a last frame.
AtEndOfStreamDispatch(rec) ==
    IF rec.buffer = <<>> THEN Closed(rec)
    ELSE [rec EXCEPT !.request = StripCR(rec.buffer), !.nDispatched = @ + 1,
                     !.pc = "parse"]

\* `if not data: break`, or the exception of the read: out of the loop with
\* the buffer left as it is.
AtEndOfStream(rec) == Closed(rec)

AfterRead(rec, r) ==
    LET message == rec.buffer \o r.data
        got == [rec EXCEPT !.buffer = message, !.received = @ \o r.data]
    IN IF r.kind # "data" THEN AtEndOfStream(rec)
       ELSE IF HasNewline(message)
       THEN [got EXCEPT !.request = RequestFrame(message),
                        !.nDispatched = @ + 1, !.pc = "parse"]
       ELSE got

\* The read loop with `results` as what the read can return.
ReadFrom(c, results) ==
    /\ Runs(c)
    /\ conn[c].pc = "read"
    /\ \E r \in results :
        /\ wire + Len(r.data) <= MaxBytes
        /\ wire' = wire + Len(r.data)
        /\ LET rec == conn[c]
               new == AfterRead(rec, r)
           IN /\ conn' = [conn EXCEPT ![c] = new]
              /\ running' = Sched(c, new.pc)
              /\ svc' = AcceptLoopAfter(svc, r.kind = "error")
    /\ UNCHANGED <<pipe, call, platform, tpmSeq, tpm_ctx, served>>

\* The read loop with clients that may split and pad their bytes at will.
Read(c) == ReadFrom(c, ReadResults)

\* _handle_request: json.loads, command.get('command'), the routing.
HandleRequestFrom(c, requests) ==
    /\ Runs(c)
    /\ conn[c].pc = "parse"
    /\ \E r \in requests :
        LET rec == [Fresh EXCEPT !.buffer = conn[c].buffer,
                                 !.received = conn[c].received,
                                 !.request = conn[c].request,
                                 !.nDispatched = conn[c].nDispatched,
                                 !.nEnvelopes = conn[c].nEnvelopes,
                                 !.nWritten = conn[c].nWritten,
                                 !.req = r]
            new == CASE r.json = "invalid" -> RaiseInRequest(rec, JsonError)
                     [] r.json = "nonobject" -> RaiseInRequest(rec, AttrError)
                     [] OTHER ->
                          IF Route(r.command) = "unknown"
                          THEN Return(rec, ErrorEnvelope(<<"Unknown command">>))
                          ELSE [rec EXCEPT !.pc = Route(r.command)]
        IN /\ conn' = [conn EXCEPT ![c] = new]
           /\ running' = Sched(c, new.pc)
    /\ UNCHANGED <<pipe, call, platform, svc, wire, tpmSeq, tpm_ctx, served>>

\* _handle_request on a frame that can spell any request.
HandleRequest(c) == HandleRequestFrom(c, Parse(conn[c].request))

\* writer.write(response_bytes) / WriteFile: the response frame goes out and
\* the coroutine awaits the drain.
SendResponse(c) ==
    /\ Runs(c)
    /\ conn[c].pc = "respond"
    /\ conn' = [conn EXCEPT ![c] = Responded(conn[c])]
    /\ running' = Sched(c, "drain")
    /\ served' = Serve(conn[c])
    /\ UNCHANGED <<pipe, call, platform, svc, wire, tpmSeq, tpm_ctx>>

\* The drain completes (the rest of the buffer is kept, the loop breaks) or
\* raises; or an exception that left _handle_request reaches the transport's
\* except clause.  Every way out closes the channel.
Close(c) ==
    /\ Runs(c)
    /\ conn[c].pc \in {"drain", "escaped"}
    /\ \E ok \in BOOLEAN :
        LET rec == conn[c]
            new == IF rec.pc = "drain" /\ ok /\ ~BreakAfterResponse
                   THEN [rec EXCEPT !.pc = "read"]
                   ELSE Closed(rec)
        IN /\ conn' = [conn EXCEPT ![c] = new]
           /\ running' = Sched(c, new.pc)
           /\ svc' = AcceptLoopAfter(svc, rec.pc = "escaped" \/ ~ok)
    /\ UNCHANGED <<pipe, call, platform, wire, tpmSeq, tpm_ctx, served>>

\* ------------------------------------------------------------- key manager
\* What read_ek_cert_from_nv / load_der_x509_certificate come to.
NvOutcomes == {"public_fail", "read_fail", "parse_fail", "cert"}

\* activateCredential starts the activation straight after the EK.
AfterLoadEkSkipAik(cmd) == IF cmd = "activateCredential" THEN "ac_start" ELSE "flush_ek"

\* Where a handler goes once load_or_create_ek has returned.  getEK and
\* getAttestationData export the key (a pure step) and flush the EK handle;
\* activateCredential goes on to the AIK.
AfterLoadEk(cmd) == IF cmd = "activateCredential" THEN "aik_create" ELSE "flush_ek"

\* Where a handler goes once create_or_load_aik_transient has returned.
AfterAik(cmd) == IF cmd = "activateCredential" THEN "ac_start" ELSE "flush_aik"

\* The name the TPM computes over the AIK's public area.
AikName == NameOf(AikTemplate)

\* The fields are decoded when ActivateCredential needs them, not before.
DecodeFailsLazily(req) == FALSE

\* base64.b64decode of encrypted_secret, hmac and enc, the first statements
\* after the field check: one that cannot be decoded raises there.
DecodeFails(req) == req.undecodable \cap DecodedFieldSet # {}

\* activateCredential: the presence check, then the three b64decode calls.
ActivateCredentialFields(c) ==
    /\ Runs(c)
    /\ conn[c].pc = "ac_fields"
    /\ LET rec == conn[c]
           new == IF ~(RequiredFields \subseteq rec.req.fields)
                  THEN Return(rec, ErrorEnvelope(<<"Missing required fields">>))
                  ELSE IF DecodeFails(rec.req)
                  THEN RaiseInHandler(rec, B64Error)
                  ELSE [rec EXCEPT !.pc = "ek_readpublic"]
       IN /\ conn' = [conn EXCEPT ![c] = new]
          /\ running' = Sched(c, new.pc)
    /\ UNCHANGED <<pipe, call, platform, svc, wire, tpmSeq, tpm_ctx, served>>

\* load_or_create_ek creates a key whatever ReadPublic returned.
AfterReadPublicAlwaysCreate(ok) == "ek_create"

\* load_or_create_ek: the try block around ReadPublic; `except Exception`
\* is where the EK is created.
AfterReadPublic(ok) == IF ok THEN "ek_nv" ELSE "ek_create"

\* load_or_create_ek: ek_handle = ESYS_TR.ENDORSEMENT; ctx.ReadPublic(ek_handle).
\* Any failure sends it to the except branch, which creates the key.
ReadPublicEk(c) ==
    /\ Runs(c)
    /\ conn[c].pc = "ek_readpublic"
    /\ \E ok \in BOOLEAN :
        LET rec == Logged(conn[c], "ReadPublic", Endorsement, ok)
            new == IF ok
                   THEN [rec EXCEPT !.ek_handle = Endorsement,
                                    !.ek_public = EkPublicArea,
                                    !.pc = AfterReadPublic(ok)]
                   ELSE [rec EXCEPT !.ek_handle = Endorsement,
                                    !.pc = AfterReadPublic(ok)]
        IN /\ conn' = [conn EXCEPT ![c] = new]
           /\ running' = Sched(c, new.pc)
    /\ tpmSeq' = Touch(c)
    /\ UNCHANGED <<pipe, call, platform, svc, wire, tpm_ctx, served>>

\* load_or_create_ek: ctx.CreatePrimary(ENDORSEMENT, .., ek_template, ..).
CreatePrimaryEk(c) ==
    /\ Runs(c)
    /\ conn[c].pc = "ek_create"
    /\ \E ok \in BOOLEAN :
        LET h == NewHandle(c, "object")
            t == EkTemplate(c)
            rec == LoggedCreate(conn[c], t, IF ok THEN h ELSE NoHandle, ok)
            new == IF ok
                   THEN [rec EXCEPT !.ek_handle = h,
                                    !.ek_public = PrimaryPublic(t), !.pc = "ek_nv"]
                   ELSE RaiseInHandler(rec, TpmError("CreatePrimary"))
        IN /\ conn' = [conn EXCEPT ![c] = new]
           /\ running' = Sched(c, new.pc)
    /\ tpmSeq' = Touch(c)
    /\ UNCHANGED <<pipe, call, platform, svc, wire, tpm_ctx, served>>

\* The certificate read with no except clause around it.
NvCatchesNothing(cls) == FALSE

\* `except Exception` of read_ek_cert_from_nv, and the one load_or_create_ek
\* has around the read and the DER parse.
NvCatches(cls) == cls \in ExceptionSubclasses

\* The exception a certificate read ends with, if any.
NvError(o) ==
    CASE o = "public_fail" -> TpmError("NV_ReadPublic")
      [] o = "read_fail" -> TpmError("NV_Read")
      [] o = "parse_fail" -> [cls |-> "ValueError", msg |-> "error parsing asn1 value"]
      [] OTHER -> NoExc

\* load_or_create_ek: the certificate read.  NV_ReadPublic, then NV_Read, then
\* the DER parse; whatever fails, the call goes on without a certificate.
ReadEkCertFromNv(c) ==
    /\ Runs(c)
    /\ conn[c].pc = "ek_nv"
    /\ \E o \in NvOutcomes :
        LET nv == [kind |-> "nv", id |-> <<>>]
            r1 == Logged(conn[c], "NV_ReadPublic", nv, o # "public_fail")
            r2 == IF o = "public_fail" THEN r1
                  ELSE Logged(r1, "NV_Read", nv, o # "read_fail")
            e == NvError(o)
            new == IF e # NoExc /\ ~NvCatches(e.cls)
                   THEN RaiseInHandler(r2, e)
                   ELSE [r2 EXCEPT !.ek_cert = (o = "cert"),
                                   !.pc = AfterLoadEk(r2.req.command)]
        IN /\ conn' = [conn EXCEPT ![c] = new]
           /\ running' = Sched(c, new.pc)
    /\ tpmSeq' = Touch(c)
    /\ UNCHANGED <<pipe, call, platform, svc, wire, tpm_ctx, served>>

\* create_or_load_aik_transient tries the creation again.
AikCreateFailedRetry(rec) == [rec EXCEPT !.pc = "aik_create"]

\* create_or_load_aik_transient has no try block: the exception of
\* CreatePrimary goes up to the handler that called it.
AikCreateFailed(rec) == RaiseInHandler(rec, TpmError("CreatePrimary"))

\* create_or_load_aik_transient: ctx.CreatePrimary(ENDORSEMENT, .., aik_template, ..).
CreatePrimaryAik(c) ==
    /\ Runs(c)
    /\ conn[c].pc = "aik_create"
    /\ \E ok \in BOOLEAN :
        LET h == NewHandle(c, "object")
            rec == LoggedCreate(conn[c], AikTemplate, IF ok THEN h ELSE NoHandle, ok)
            new == IF ok
                   THEN [rec EXCEPT !.aik_handle = h, !.pc = "aik_getname"]
                   ELSE AikCreateFailed(rec)
        IN /\ conn' = [conn EXCEPT ![c] = new]
           /\ running' = Sched(c, new.pc)
    /\ tpmSeq' = Touch(c)
    /\ UNCHANGED <<pipe, call, platform, svc, wire, tpm_ctx, served>>

\* create_or_load_aik_transient: ctx.GetName(aik_handle); back in
\* getAttestationData, the `aik_handle is None` check.
GetNameAik(c) ==
    /\ Runs(c)
    /\ conn[c].pc = "aik_getname"
    /\ \E ok \in BOOLEAN :
        LET rec == Logged(conn[c], "GetName", conn[c].aik_handle, ok)
            new == IF ~ok THEN RaiseInHandler(rec, TpmError("GetName"))
                   ELSE IF rec.req.command = "getAttestationData"
                           /\ rec.aik_handle = NoHandle
                   THEN Return(rec, ErrorEnvelope(<<"Failed to create AIK handle">>))
                   ELSE [rec EXCEPT !.aik_name = AikName,
                                    !.pc = AfterAik(rec.req.command)]
        IN /\ conn' = [conn EXCEPT ![c] = new]
           /\ running' = Sched(c, new.pc)
    /\ tpmSeq' = Touch(c)
    /\ UNCHANGED <<pipe, call, platform, svc, wire, tpm_ctx, served>>

\* ------------------------------------------------------- activation engine
\* The session is flushed on the way out of a successful call only: a failed
\* PolicySecret or ActivateCredential raises straight away.
ActivateCredentialNextNoFinally(p, ok) ==
    CASE p = "ac_policy" -> IF ok THEN "ac_activate" ELSE "raise"
      [] p = "ac_activate" -> IF ok THEN "ac_finally" ELSE "raise"

\* ActivateCredential is tried whatever PolicySecret did.
ActivateCredentialNextIgnoresPolicy(p, ok) ==
    CASE p = "ac_policy" -> "ac_activate"
      [] p = "ac_activate" -> "ac_finally"

\* The try / finally of activate_credential: after PolicySecret comes
\* ActivateCredential if it succeeded; every way out of the try block goes
\* through the finally clause.
ActivateCredentialNext(p, ok) ==
    CASE p = "ac_policy" -> IF ok THEN "ac_activate" ELSE "ac_finally"
      [] p = "ac_activate" -> "ac_finally"

\* One step of the try block: the primitive `op` at position p came out `ok`.
TryStep(rec, p, op, ok) ==
    LET nxt == ActivateCredentialNext(p, ok)
    IN IF nxt = "raise" THEN RaiseInHandler(rec, TpmError(op))
       ELSE [rec EXCEPT !.pc = nxt,
                        !.pending = IF ok THEN NoExc ELSE TpmError(op),
                        !.decrypted_secret =
                            IF ok /\ p = "ac_activate" THEN Secret ELSE @]

\* activate_credential: ctx.StartAuthSession(.., TPM2_SE.POLICY, .., SHA256),
\* before the try block.
StartAuthSession(c) ==
    /\ Runs(c)
    /\ conn[c].pc = "ac_start"
    /\ \E ok \in BOOLEAN :
        LET h == NewHandle(c, "session")
            rec == Logged(conn[c], "StartAuthSession", IF ok THEN h ELSE NoHandle, ok)
            new == IF ok
                   THEN [rec EXCEPT !.policy_session = h, !.pc = "ac_policy"]
                   ELSE RaiseInHandler(rec, TpmError("StartAuthSession"))
        IN /\ conn' = [conn EXCEPT ![c] = new]
           /\ running' = Sched(c, new.pc)
    /\ tpmSeq' = Touch(c)
    /\ UNCHANGED <<pipe, call, platform, svc, wire, tpm_ctx, served>>

\* activate_credential: ctx.PolicySecret(ENDORSEMENT, policy_session, ..).
PolicySecret(c) ==
    /\ Runs(c)
    /\ conn[c].pc = "ac_policy"
    /\ \E ok \in BOOLEAN :
        LET rec == Logged(conn[c], "PolicySecret", conn[c].policy_session, ok)
            new == TryStep(rec, "ac_policy", "PolicySecret", ok)
        IN /\ conn' = [conn EXCEPT ![c] = new]
           /\ running' = Sched(c, new.pc)
    /\ tpmSeq' = Touch(c)
    /\ UNCHANGED <<pipe, call, platform, svc, wire, tpm_ctx, served>>

\* activate_credential: ctx.ActivateCredential(aik_handle, ek_handle,
\* policy_session, .., credential_blob, encrypted_secret).
ActivateCredential(c) ==
    /\ Runs(c)
    /\ conn[c].pc = "ac_activate"
    /\ \E ok \in BOOLEAN :
        LET rec == LoggedActivate(conn[c], conn[c].policy_session, ok)
            new == TryStep(rec, "ac_activate", "ActivateCredential", ok)
        IN /\ conn' = [conn EXCEPT ![c] = new]
           /\ running' = Sched(c, new.pc)
    /\ tpmSeq' = Touch(c)
    /\ UNCHANGED <<pipe, call, platform, svc, wire, tpm_ctx, served>>

\* activate_credential: finally: ctx.FlushContext(policy_session).  A failure
\* of the flush raises out of the finally clause (replacing the exception in
\* flight); otherwise the exception in flight goes on, or the secret is
\* returned and the handler flushes its two handles.
FlushSession(c) ==
    /\ Runs(c)
    /\ conn[c].pc = "ac_finally"
    /\ \E ok \in BOOLEAN :
        LET rec == Logged(conn[c], "FlushContext", conn[c].policy_session, ok)
            new == IF ~ok THEN RaiseInHandler(rec, TpmError("FlushContext"))
                   ELSE IF rec.pending # NoExc THEN RaiseInHandler(rec, rec.pending)
                   ELSE [rec EXCEPT !.pc = "flush_ek"]
        IN /\ conn' = [conn EXCEPT ![c] = new]
           /\ running' = Sched(c, new.pc)
    /\ tpmSeq' = Touch(c)
    /\ UNCHANGED <<pipe, call, platform, svc, wire, tpm_ctx, served>>

\* ----------------------------------------------------- the handlers' flushes
\* getAttestationData answers after the EK flush, like getEK.
AfterFlushEkSkipAik(cmd, ok) ==
    CASE cmd = "getEK" -> "return"
      [] cmd = "getAttestationData" -> "return"
      [] OTHER -> IF ok THEN "flush_aik" ELSE "return"

\* After FlushContext(ek_handle).  getEK answers; getAttestationData goes on
\* to create the AIK; activateCredential flushes the AIK handle in the same
\* try block, so a failed EK flush skips it.
AfterFlushEk(cmd, ok) ==
    CASE cmd = "getEK" -> "return"
      [] cmd = "getAttestationData" -> "aik_create"
      [] OTHER -> IF ok THEN "flush_aik" ELSE "return"

\* The envelope a handler returns on success.
OkEnvelope(rec) ==
    CASE rec.req.command = "getEK" -> GetEkEnvelope(rec)
      [] rec.req.command = "getAttestationData" -> AttestationEnvelope(rec)
      [] OTHER -> ActivateEnvelope(rec)

\* self.tpm_ctx.FlushContext(ek_handle) inside try / except Exception.
FlushEk(c) ==
    /\ Runs(c)
    /\ conn[c].pc = "flush_ek"
    /\ \E ok \in BOOLEAN :
        LET rec == Logged(conn[c], "FlushContext", conn[c].ek_handle, ok)
            nxt == AfterFlushEk(rec.req.command, ok)
            new == IF ~ok /\ ~FlushCatches("TSS2_Exception")
                   THEN RaiseInHandler(rec, TpmError("FlushContext"))
                   ELSE IF nxt = "return" THEN Return(rec, OkEnvelope(rec))
                   ELSE [rec EXCEPT !.pc = nxt]
        IN /\ conn' = [conn EXCEPT ![c] = new]
           /\ running' = Sched(c, new.pc)
    /\ tpmSeq' = Touch(c)
    /\ UNCHANGED <<pipe, call, platform, svc, wire, tpm_ctx, served>>

\* self.tpm_ctx.FlushContext(aik_handle) inside try / except Exception.
FlushAik(c) ==
    /\ Runs(c)
    /\ conn[c].pc = "flush_aik"
    /\ \E ok \in BOOLEAN :
        LET rec == Logged(conn[c], "FlushContext", conn[c].aik_handle, ok)
            new == IF ~ok /\ ~FlushCatches("TSS2_Exception")
                   THEN RaiseInHandler(rec, TpmError("FlushContext"))
                   ELSE Return(rec, OkEnvelope(rec))
        IN /\ conn' = [conn EXCEPT ![c] = new]
           /\ running' = Sched(c, new.pc)
    /\ tpmSeq' = Touch(c)
    /\ UNCHANGED <<pipe, call, platform, svc, wire, tpm_ctx, served>>

\* ------------------------------------------------------------ specification
Next ==
    \/ StartService
    \/ \E c \in Conns :
        \/ Accept(c)
        \/ Read(c)
        \/ HandleRequest(c)
        \/ SendResponse(c)
        \/ Close(c)
        \/ ActivateCredentialFields(c)
        \/ ReadPublicEk(c)
        \/ CreatePrimaryEk(c)
        \/ ReadEkCertFromNv(c)
        \/ CreatePrimaryAik(c)
        \/ GetNameAik(c)
        \/ StartAuthSession(c)
        \/ PolicySecret(c)
        \/ ActivateCredential(c)
        \/ FlushSession(c)
        \/ FlushEk(c)
        \/ FlushAik(c)

Spec == Init /\ [][Next]_vars

\* The synchronous code of connection c's coroutine: once the event loop has
\* resumed the coroutine, it runs on to the next await.
HandlerSteps(c) ==
    \/ ActivateCredentialFields(c)
    \/ ReadPublicEk(c)
    \/ CreatePrimaryEk(c)
    \/ ReadEkCertFromNv(c)
    \/ CreatePrimaryAik(c)
    \/ GetNameAik(c)
    \/ StartAuthSession(c)
    \/ PolicySecret(c)
    \/ ActivateCredential(c)
    \/ FlushSession(c)
    \/ FlushEk(c)
    \/ FlushAik(c)

Synchronous(c) ==
    \/ HandleRequest(c)
    \/ SendResponse(c)
    \/ HandlerSteps(c)

\* What a read returns to clients that write a frame in one piece or stop
\* half way: a whole frame, a frame's first bytes, the end of the stream, or
\* an error.
FrameReadResults ==
    {[kind |-> "data", data |-> <<"J", "NL">>], [kind |-> "data", data |-> <<"J">>],
     [kind |-> "eof", data |-> <<>>], [kind |-> "error", data |-> <<>>]}

\* The read loop with such clients.
ReadFrame(c) == ReadFrom(c, FrameReadResults)

LiveNext ==
    \/ StartService
    \/ \E c \in Conns :
        \/ Accept(c)
        \/ ReadFrame(c)
        \/ Close(c)
        \/ Synchronous(c)

\* The server under a fair event loop, with clients that keep connecting:
\* synchronous code runs on, the write of a response completes or fails, and
\* a client waiting for the listening server is accepted.  Nothing is
\* assumed of when, or whether, a client sends its bytes.
LiveSpec ==
    /\ Init /\ [][LiveNext]_vars
    /\ WF_vars(\E c \in Conns : Synchronous(c))
    /\ WF_vars(\E c \in Conns : Close(c))
    /\ WF_vars(\E c \in Conns : Accept(c))

\* ------------------------------------------------- the service is stopped
\* TpmWrapperService.stop, run as the task the signal handler creates:
\* self.running = False and self.tpm_ctx.close().  It has no await, and
\* runs when the loop runs no handler.  It does not touch the IPC server.
Stop ==
    /\ running = 0
    /\ svc = "listening"
    /\ tpm_ctx = "connected"
    /\ tpm_ctx' = "closed"
    /\ UNCHANGED <<pipe, call, platform, svc, running, conn, wire, tpmSeq, served>>

ShutdownNext == LiveNext \/ Stop

\* The server with a shutdown signal arriving at any time.
ShutdownSpec == Init /\ [][ShutdownNext]_vars

\* ------------------------------------------- clients whose bytes are kept
\* What such a client sends: one frame, a byte at a time.
FrameSent == <<"J", "NL">>

\* A client whose connection the server reads from sends the next byte of
\* its frame.
\* Bytes that arrive while the loop runs a coroutine are seen at the next
\* await only, so they are taken to arrive then.
ClientSend(c) ==
    /\ running = 0
    /\ conn[c].pc = "read"
    /\ wire < MaxBytes
    /\ LET sent == Len(conn[c].received) + Len(pipe[c])
       IN /\ sent < Len(FrameSent)
          /\ pipe' = [pipe EXCEPT ![c] = Append(@, FrameSent[sent + 1])]
    /\ wire' = wire + 1
    /\ UNCHANGED <<call, platform, svc, running, conn, tpmSeq, tpm_ctx, served>>

\* data = await reader.read(4096) with bytes waiting: it returns them.
ReadPipe(c) ==
    /\ Runs(c)
    /\ conn[c].pc = "read"
    /\ pipe[c] # <<>>
    /\ LET new == AfterRead(conn[c], [kind |-> "data", data |-> pipe[c]])
       IN /\ conn' = [conn EXCEPT ![c] = new]
          /\ running' = Sched(c, new.pc)
    /\ pipe' = [pipe EXCEPT ![c] = <<>>]
    /\ UNCHANGED <<call, platform, svc, wire, tpmSeq, tpm_ctx, served>>

\* What a read returns when the client is gone.
EndResults == {[kind |-> "eof", data |-> <<>>], [kind |-> "error", data |-> <<>>]}

\* The client has disconnected, all it sent being read: the read returns
\* nothing, or raises.
ReadEnd(c) == pipe[c] = <<>> /\ ReadFrom(c, EndResults)

SocketNext ==
    \/ StartService
    \/ \E c \in Conns :
        \/ Accept(c)
        \/ ClientSend(c)
        \/ ReadPipe(c)
        \/ ReadEnd(c)
        \/ Close(c)
        \/ Synchronous(c)

\* The server under a fair event loop: synchronous code runs on, the write
\* of a response completes or fails, and a coroutine waiting in read() with
\* bytes there for it is resumed.  Nothing is assumed of when, or whether, a
\* client sends.
SocketSpec ==
    /\ Init /\ [][SocketNext]_vars
    /\ WF_vars(\E c \in Conns : Synchronous(c))
    /\ WF_vars(\E c \in Conns : Close(c))
    /\ WF_vars(\E c \in Conns : ReadPipe(c))

\* -------------------------- activateCredential with one blob and another
\* The bytes the clients put in the credential_blob field.
BlobValues == {DefaultBlob, <<"another blob">>}

\* Complete activateCredential requests that differ in the value of
\* credential_blob and in nothing else.
BlobRequests ==
    {[Obj("activateCredential", AllFields, {}) EXCEPT !.blob = b] : b \in BlobValues}

\* What a read returns to a client that sends its frame in one piece, or
\* leaves.
WholeFrameResults ==
    {[kind |-> "data", data |-> <<"J", "NL">>], [kind |-> "eof", data |-> <<>>]}

ReadWholeFrame(c) == ReadFrom(c, WholeFrameResults)

\* _handle_request on the frame of such a request.
HandleBlobRequest(c) == HandleRequestFrom(c, BlobRequests)

\* The TPM calls of a request as the TPM sees them: the primitive, its
\* arguments, the kind of handle, the outcome.
CallsOf(rec) ==
    [i \in 1..Len(rec.log) |->
        [op |-> rec.log[i].op, arg |-> rec.log[i].arg,
         kind |-> rec.log[i].h.kind, ok |-> rec.log[i].ok]]

\* What is kept of the first request answered.
Kept(rec) == [pc |-> "kept", req |-> rec.req, calls |-> CallsOf(rec), resp |-> rec.resp]

\* The response frame goes out (as in SendResponse); the first request
\* answered is kept, to compare later ones with.
SendResponseKeep(c) ==
    /\ Runs(c)
    /\ conn[c].pc = "respond"
    /\ conn' = [conn EXCEPT ![c] = Responded(conn[c])]
    /\ running' = Sched(c, "drain")
    /\ served' = Serve(conn[c])
    /\ call' = IF call = NoCall THEN Kept(conn[c]) ELSE call
    /\ UNCHANGED <<pipe, platform, svc, wire, tpmSeq, tpm_ctx>>

BlobNext ==
    \/ StartService
    \/ \E c \in Conns :
        \/ Accept(c)
        \/ ReadWholeFrame(c)
        \/ HandleBlobRequest(c)
        \/ HandlerSteps(c)
        \/ SendResponseKeep(c)
        \/ Close(c)

BlobSpec == Init /\ [][BlobNext]_vars

\* ------------------------------------------- read_ek_cert_from_nv, stepwise
\* max_read_size = 1024
MaxReadSize == 1024

\* The largest NV index followed: two full reads and one byte more.
MaxNvSize == 2049

\* NV contents up to this length are tried byte by byte.
MaxProbeLen == 3

\* The byte values of the short contents: 0, 1, 2 as length prefixes, 48
\* (0x30) as the first byte of a DER certificate.
NvByteValues == {0, 1, 2, 48}

ByteStrings(n) == UNION {[1..k -> NvByteValues] : k \in 0..n}

\* n bytes of 0x30.
Filler(n) == [i \in 1..n |-> 48]

\* n bytes that are a TPM2B: the big-endian length n - 2, then n - 2 bytes.
Wrapped(n) == <<(n - 2) \div 256, (n - 2) % 256>> \o Filler(n - 2)

\* What the NV index may hold: every short byte string, and for every size
\* a raw and a length-prefixed content.
NvContents ==
    ByteStrings(MaxProbeLen)
        \cup {Filler(n) : n \in 0..MaxNvSize}
        \cup {Wrapped(n) : n \in 2..MaxNvSize}

Min(a, b) == IF a <= b THEN a ELSE b

\* Every read asks for a full max_read_size.
BytesToReadFixed(cert_size, offset) == MaxReadSize

\* bytes_to_read = min(max_read_size, cert_size - offset)
BytesToRead(cert_size, offset) == Min(MaxReadSize, cert_size - offset)

\* wrapped_length = (cert_data[0] << 8) | cert_data[1]
WrappedLength(cert_data) == cert_data[1] * 256 + cert_data[2]

\* The end of read_ek_cert_from_nv: the prefix check and the two returns.
Unwrap(cert_data) ==
    IF Len(cert_data) > 2
    THEN IF WrappedLength(cert_data) + 2 = Len(cert_data)
         THEN SubSeq(cert_data, 3, Len(cert_data))
         ELSE cert_data
    ELSE cert_data

\* `return None` of the except clause.
NoneReturned == [returned |-> TRUE, none |-> TRUE, bytes |-> <<>>]

\* `return bytes(...)`
Returned(b) == [returned |-> TRUE, none |-> FALSE, bytes |-> b]

\* Not returned yet.
NoResult == [returned |-> FALSE, none |-> FALSE, bytes |-> <<>>]

\* A call of read_ek_cert_from_nv on an NV index holding `data`.
NvInit ==
    /\ ServerInit
    /\ \E data \in NvContents :
          call = [pc |-> "nv_public", nv |-> data, cert_size |-> 0, offset |-> 0,
                  cert_data |-> <<>>, reads |-> <<>>, result |-> NoResult]

\* nv_public, _ = ctx.NV_ReadPublic(nv_handle); cert_size = nv_public.dataSize
NvReadPublic ==
    /\ call.pc = "nv_public"
    /\ \E ok \in BOOLEAN :
          call' = IF ok THEN [call EXCEPT !.pc = "loop", !.cert_size = Len(call.nv)]
                  ELSE [call EXCEPT !.pc = "done", !.result = NoneReturned]
    /\ UNCHANGED <<platform, svc, running, conn, wire, tpmSeq, tpm_ctx, served, pipe>>

\* One pass of `while offset < cert_size`: NV_Read of bytes_to_read bytes at
\* offset.  The TPM returns that many bytes of the index, or fails; it fails
\* a read that reaches beyond the index.
NvRead ==
    /\ call.pc = "loop"
    /\ call.offset < call.cert_size
    /\ LET n == BytesToRead(call.cert_size, call.offset)
           asked == [call EXCEPT !.reads = Append(@, [size |-> n, offset |-> call.offset])]
       IN \E ok \in IF call.offset + n <= Len(call.nv) THEN BOOLEAN ELSE {FALSE} :
             call' = IF ok
                     THEN [asked EXCEPT
                             !.cert_data = @ \o SubSeq(call.nv, call.offset + 1, call.offset + n),
                             !.offset = @ + n]
                     ELSE [asked EXCEPT !.pc = "done", !.result = NoneReturned]
    /\ UNCHANGED <<platform, svc, running, conn, wire, tpmSeq, tpm_ctx, served, pipe>>

\* The loop is over: the prefix check, and the return.
NvReturn ==
    /\ call.pc = "loop"
    /\ ~(call.offset < call.cert_size)
    /\ call' = [call EXCEPT !.pc = "done", !.result = Returned(Unwrap(call.cert_data))]
    /\ UNCHANGED <<platform, svc, running, conn, wire, tpmSeq, tpm_ctx, served, pipe>>

NvNext == NvReadPublic \/ NvRead \/ NvReturn

\* The call runs on: nothing but its own statements can hold it up.
NvSpec == NvInit /\ [][NvNext]_vars /\ WF_vars(NvNext)

\* ----------------------------------- export_rsa_ek_to_base64_x509, stepwise
\* The longest modulus exported.
MaxModulusLen == 3

\* Exponents a public area can carry (a UINT32): the template's 0, the
\* smallest values, 65537 itself and its neighbours, a 31-bit value.
Exponents == {0, 1, 2, 3, 65536, 65537, 65539, 2147483647}

\* A call of export_rsa_ek_to_base64_x509(modulus, exponent).
ExportInit ==
    /\ ServerInit
    /\ \E m \in ByteStrings(MaxModulusLen), x \in Exponents :
          call = [pc |-> "export", modulus |-> m, exponent |-> x,
                  text |-> B64Encode([n |-> 0, e |-> 0])]

\* The call returns the base64 text of the key.
ExportReturn ==
    /\ call.pc = "export"
    /\ call' = [call EXCEPT !.pc = "returned",
                            !.text = ExportRsaEkToBase64X509(call.modulus, call.exponent)]
    /\ UNCHANGED <<platform, svc, running, conn, wire, tpmSeq, tpm_ctx, served, pipe>>

\* rsa.RSAPublicNumbers(..).public_key() rejects the numbers: the call
\* raises and exports nothing.
ExportRaise ==
    /\ call.pc = "export"
    /\ call' = [call EXCEPT !.pc = "raised"]
    /\ UNCHANGED <<platform, svc, running, conn, wire, tpmSeq, tpm_ctx, served, pipe>>

ExportNext == ExportReturn \/ ExportRaise

ExportSpec == ExportInit /\ [][ExportNext]_vars

\* ------------------------------------------------------ reading the record
Entries(rec, ops) ==
    {i \in 1..Len(rec.log) : rec.log[i].op \in ops}

\* Handles and sessions the request obtained.
Obtained(rec) ==
    {rec.log[i].h : i \in {k \in Entries(rec, {"CreatePrimary", "StartAuthSession"}) :
                              rec.log[k].ok}}

\* Handles the request has passed to FlushContext.
PassedToFlush(rec) == {rec.log[i].h : i \in Entries(rec, {"FlushContext"})}

FlushCalls(rec, h) ==
    Cardinality({i \in Entries(rec, {"FlushContext"}) : rec.log[i].h = h})

Failed(rec, op) == \E i \in Entries(rec, {op}) : ~rec.log[i].ok

\* A request the dispatcher routes to a handler that goes to the TPM.
Complete(req) ==
    /\ req.json = "object"
    /\ req.command \in KnownCommands
    /\ req.command = "activateCredential" => req.fields = AllFields /\ req.undecodable = {}

\* Positions inside activate_credential's try block and finally clause.
InTry == {"ac_policy", "ac_activate", "ac_finally"}

\* The bytes before the first newline.
RECURSIVE UpToNewline(_)
UpToNewline(s) ==
    IF s = <<>> \/ Head(s) = "NL" THEN <<>> ELSE <<Head(s)>> \o UpToNewline(Tail(s))

\* ------------------------------------------------------------------ claims

\* C1 (as stated): when a request's envelope is returned, every handle it
\* obtained from CreatePrimary or StartAuthSession has been passed to
\* FlushContext, whatever failed on the way.
C1_ObtainedHandlesFlushed ==
    \A c \in Conns :
        conn[c].pc = "respond" => Obtained(conn[c]) \subseteq PassedToFlush(conn[c])

\* C2: once StartAuthSession has succeeded, FlushContext is called on that
\* session exactly once by the time activate_credential returns or raises,
\* and not before the try block is left, whether PolicySecret and
\* ActivateCredential succeed or fail.
C2_SessionFlushedExactlyOnce ==
    \A c \in Conns :
        LET rec == conn[c]
        IN rec.policy_session # NoHandle =>
            FlushCalls(rec, rec.policy_session) = IF rec.pc \in InTry THEN 0 ELSE 1

C2_Witness ==
    \E c \in Conns :
        /\ conn[c].pc = "respond"
        /\ conn[c].policy_session # NoHandle
        /\ Failed(conn[c], "ActivateCredential")
        /\ FlushCalls(conn[c], conn[c].policy_session) = 1

\* C3: the TPM primitive calls of one request are contiguous: no call of
\* another request falls between the first and the last of them.
C3_TpmCallsSerialized ==
    \A i, j \in 1..Len(tpmSeq) : i # j => tpmSeq[i] # tpmSeq[j]

C3_Witness ==
    /\ platform = "unix"
    /\ tpmSeq = <<2, 1>>
    /\ conn[2].pc = "drain"
    /\ conn[1].pc = "respond"

\* C4: an activateCredential request that lacks any of the four fields is
\* answered "Missing required fields" and makes no TPM primitive call.
C4_MissingFieldsNoTpmCall ==
    \A c \in Conns :
        LET rec == conn[c]
        IN (/\ rec.req.json = "object"
            /\ rec.req.command = "activateCredential"
            /\ rec.req.fields # AllFields)
           => /\ rec.log = <<>>
              /\ rec.pc \in {"ac_fields", "respond"}
              /\ rec.pc = "respond" =>
                    rec.resp = ErrorEnvelope(<<"Missing required fields">>)

C4_Witness ==
    \E c \in Conns :
        /\ conn[c].pc = "respond"
        /\ conn[c].req.command = "activateCredential"
        /\ conn[c].req.fields = AllFields \ {"credential_blob"}
        /\ conn[c].resp = ErrorEnvelope(<<"Missing required fields">>)

\* C5: a frame that is not valid JSON is answered with an error envelope that
\* carries the parser's message; the parser's exception does not leave the
\* dispatcher.
C5_MalformedJsonAnswered ==
    \A c \in Conns :
        conn[c].req.json = "invalid" =>
            /\ conn[c].pc = "respond"
            /\ conn[c].resp = ErrorEnvelope(<<JsonError.msg>>)

C5_Witness ==
    \E c \in Conns :
        /\ conn[c].req.json = "invalid"
        /\ conn[c].request # <<>>
        /\ conn[c].pc = "respond"
        /\ conn[c].resp.status = "error"

\* C6: a request object whose command is none of getEK, getAttestationData,
\* activateCredential (or is absent) is answered exactly "Unknown command".
C6_UnknownCommandAnswered ==
    \A c \in Conns :
        (conn[c].req.json = "object" /\ conn[c].req.command \notin KnownCommands)
            => /\ conn[c].pc = "respond"
               /\ conn[c].resp = ErrorEnvelope(<<"Unknown command">>)
               /\ conn[c].log = <<>>

C6_Witness ==
    \E c \in Conns :
        /\ conn[c].req.json = "object"
        /\ conn[c].req.command = "reboot"
        /\ conn[c].pc = "respond"
        /\ conn[c].resp = ErrorEnvelope(<<"Unknown command">>)

\* A failure no try block inside the handler absorbs: a failed key creation,
\* GetName, session start, PolicySecret or ActivateCredential, or a failed
\* flush of the policy session in the finally clause.
Unabsorbed(rec) ==
    \E i \in 1..Len(rec.log) :
        /\ ~rec.log[i].ok
        /\ \/ rec.log[i].op \in {"CreatePrimary", "GetName", "StartAuthSession",
                                 "PolicySecret", "ActivateCredential"}
           \/ rec.log[i].op = "FlushContext" /\ rec.log[i].h.kind = "session"

\* C7: every dispatched frame gets exactly one envelope and no exception
\* leaves the dispatcher; a request in which a handler step failed without
\* being absorbed is answered with status "error".
C7_OneEnvelopeNoEscape ==
    \A c \in Conns :
        LET rec == conn[c]
        IN /\ rec.pc # "escaped"
           /\ rec.nEnvelopes <= rec.nDispatched
           /\ rec.pc = "respond" =>
                /\ rec.nEnvelopes = rec.nDispatched
                /\ rec.resp.status \in {"ok", "error"}
                /\ (Unabsorbed(rec) \/ rec.req.undecodable # {} \/ rec.req.json = "nonobject")
                      => rec.resp.status = "error"
           /\ rec.pc \notin {"respond", "drain", "closed", "idle", "read"} =>
                rec.nEnvelopes = rec.nDispatched - 1

C7_Witness ==
    \E c \in Conns :
        /\ conn[c].pc = "respond"
        /\ Failed(conn[c], "PolicySecret")
        /\ \E i \in Entries(conn[c], {"FlushContext"}) :
              ~conn[c].log[i].ok /\ conn[c].log[i].h = conn[c].policy_session
        /\ conn[c].resp.status = "error"
        /\ conn[c].nEnvelopes = 1

\* C8: on either platform a connection has at most one frame dispatched and
\* at most one response written; the frame is the bytes before the first
\* newline (carriage returns stripped), and once the response is written the
\* handler reads no more.
C8_OneRequestPerConnection ==
    \A c \in Conns :
        LET rec == conn[c]
        IN /\ rec.nDispatched <= 1
           /\ rec.nWritten <= 1
           /\ rec.nWritten <= rec.nDispatched
           /\ (rec.nDispatched = 1 /\ rec.pc # "drain") =>
                /\ rec.request = StripCR(UpToNewline(rec.received))
                /\ rec.buffer = rec.received
           /\ rec.nWritten = 1 => rec.pc = "drain"

C8_Witness ==
    \E c \in Conns :
        /\ platform = "windows"
        /\ conn[c].pc = "drain"
        /\ conn[c].nWritten = 1
        /\ conn[c].buffer # <<>>

\* C9 (as stated): a request in which every TPM primitive other than
\* FlushContext succeeds is answered with status "ok", whichever FlushContext
\* calls fail.
C9_FlushFailureNotEscalated ==
    \A c \in Conns :
        LET rec == conn[c]
        IN (/\ rec.pc = "respond"
            /\ Complete(rec.req)
            /\ \A i \in 1..Len(rec.log) :
                  rec.log[i].op # "FlushContext" => rec.log[i].ok)
           => rec.resp.status = "ok"

\* C10 (as stated): when a request's envelope is returned, the number of
\* FlushContext calls it made equals the number of handles and sessions it
\* obtained.
C10_FlushCountEqualsObtained ==
    \A c \in Conns :
        conn[c].pc = "respond" =>
            Cardinality(Entries(conn[c], {"FlushContext"})) = Cardinality(Obtained(conn[c]))

\* The calls of the log before position i.
Before(rec, i, ops) == {j \in Entries(rec, ops) : j < i}

IsEkCreate(c, e) == e.op = "CreatePrimary" /\ e.arg = EkTemplate(c)

IsAikCreate(e) == e.op = "CreatePrimary" /\ e.arg = AikTemplate

\* load_or_create_ek has returned before call i: the key was read or created,
\* and the certificate read that ends the function has been made.
EkLoadedBefore(c, i) ==
    LET rec == conn[c]
    IN \E n \in Before(rec, i, {"NV_ReadPublic"}) :
          \E k \in Before(rec, n, {"ReadPublic", "CreatePrimary"}) :
              /\ rec.log[k].ok
              /\ rec.log[k].op = "CreatePrimary" => IsEkCreate(c, rec.log[k])

\* create_or_load_aik_transient has returned before call i: the AIK was
\* created and named.
AikCreatedBefore(c, i) ==
    LET rec == conn[c]
    IN \E g \in Before(rec, i, {"GetName"}) :
          /\ rec.log[g].ok
          /\ \E k \in Before(rec, g, {"CreatePrimary"}) :
                IsAikCreate(rec.log[k]) /\ rec.log[k].ok /\ rec.log[k].h = rec.aik_handle

\* C11: within a request the AIK is created only after load_or_create_ek has
\* returned, ActivateCredential is issued only after both the EK and the AIK
\* are there, and when it is issued neither handle has been flushed.
C11_EkThenAikThenActivation ==
    \A c \in Conns :
        LET rec == conn[c]
        IN \A i \in 1..Len(rec.log) :
              /\ IsAikCreate(rec.log[i]) => EkLoadedBefore(c, i)
              /\ rec.log[i].op = "ActivateCredential" =>
                    /\ EkLoadedBefore(c, i)
                    /\ AikCreatedBefore(c, i)
                    /\ rec.ek_handle # NoHandle
                    /\ \A f \in Before(rec, i, {"FlushContext"}) :
                          rec.log[f].h \notin {rec.ek_handle, rec.aik_handle}

C11_Witness ==
    \E c \in Conns :
        /\ conn[c].pc = "respond"
        /\ conn[c].resp.status = "ok"
        /\ \E i \in Entries(conn[c], {"ActivateCredential"}) : conn[c].log[i].ok
        /\ \E k \in Entries(conn[c], {"CreatePrimary"}) : IsEkCreate(c, conn[c].log[k])

\* The three primitives of activate_credential.
ActivationOps == <<"StartAuthSession", "PolicySecret", "ActivateCredential">>

\* C12: one activate_credential call issues StartAuthSession, PolicySecret and
\* ActivateCredential at most once each, each only after the one before it
\* succeeded (so never ActivateCredential after a failed PolicySecret), and
\* a failure of any of them ends the request with an error, never a success.
C12_ActivationOneShot ==
    \A c \in Conns :
        LET rec == conn[c]
            failed == \E n \in 1..3 : Failed(rec, ActivationOps[n])
        IN /\ \A n \in 1..3 : Cardinality(Entries(rec, {ActivationOps[n]})) <= 1
           /\ \A n \in 2..3 :
                 \A i \in Entries(rec, {ActivationOps[n]}) :
                     \E j \in Before(rec, i, {ActivationOps[n - 1]}) : rec.log[j].ok
           /\ failed => rec.pc \in {"ac_finally", "respond"}
           /\ (failed /\ rec.pc = "respond") => rec.resp.status = "error"

C12_Witness ==
    \E c \in Conns :
        /\ conn[c].pc = "respond"
        /\ Failed(conn[c], "PolicySecret")
        /\ Entries(conn[c], {"ActivateCredential"}) = {}
        /\ Cardinality(Entries(conn[c], {"StartAuthSession"})) = 1
        /\ conn[c].resp = ErrorEnvelope(<<"ActivateCredential failed: ", "PolicySecret">>)

\* The primitives of key creation and of credential activation.
CreationAndActivationOps ==
    {"CreatePrimary", "GetName", "StartAuthSession", "PolicySecret", "ActivateCredential"}

\* C13 (as stated): when a primitive of key creation or credential activation
\* fails, the message of the error envelope is that primitive's message, as
\* it is, in getEK, getAttestationData and activateCredential alike.
C13_PrimitiveMessageVerbatim ==
    \A c \in Conns :
        \A op \in CreationAndActivationOps :
            (conn[c].pc = "respond" /\ Failed(conn[c], op))
                => conn[c].resp = ErrorEnvelope(<<TpmError(op).msg>>)

\* C14: the ek_public of a successful getEK response is the one every
\* successful getEK response written before it carried, whether the key was
\* read with ReadPublic or created with CreatePrimary in either request.
C14_EkPublicStable ==
    /\ Cardinality(served.ek_public) <= 1
    /\ \A c \in Conns :
          (conn[c].pc = "respond" /\ conn[c].req.command = "getEK"
                /\ conn[c].resp.status = "ok")
              => served.ek_public \subseteq {conn[c].resp.ek_public}

C14_Witness ==
    \E c \in Conns :
        /\ served.ek_public # {}
        /\ conn[c].pc = "respond"
        /\ conn[c].req.command = "getEK"
        /\ conn[c].resp.status = "ok"
        /\ conn[c].resp.ek_public \in served.ek_public
        /\ \E k \in Entries(conn[c], {"CreatePrimary"}) : conn[c].log[k].ok

\* C15 (as stated): the aik_name of a successful getAttestationData response
\* differs from the aik_name of every successful getAttestationData response
\* written before it.
C15_AikNameFresh ==
    \A c \in Conns :
        (conn[c].pc = "respond" /\ conn[c].req.command = "getAttestationData"
              /\ conn[c].resp.status = "ok")
            => conn[c].resp.aik_name \notin served.aik_name

\* C16: a getEK request against a TPM with no EK to read (ReadPublic fails)
\* and no EK certificate (the NV index cannot be read) makes exactly one
\* CreatePrimary call, with the EK template under the endorsement hierarchy,
\* and, the key created, is answered "ok" with the exported ek_public and a
\* null ek_cert.
C16_GetEkCreatesOnce ==
    \A c \in Conns :
        LET rec == conn[c]
            created == Entries(rec, {"CreatePrimary"})
        IN (rec.pc = "respond" /\ rec.req.command = "getEK"
                /\ Failed(rec, "ReadPublic"))
              => /\ Cardinality(created) = 1
                 /\ \A k \in created : IsEkCreate(c, rec.log[k])
                 /\ (~Failed(rec, "CreatePrimary") /\ Failed(rec, "NV_ReadPublic"))
                       => rec.resp =
                            [status |-> "ok",
                             ek_public |-> B64Encode([n |-> IntFromBytes(EkPublicArea.modulus),
                                                      e |-> 65537]),
                             ek_cert |-> Null]

C16_Witness ==
    \E c \in Conns :
        /\ conn[c].pc = "respond"
        /\ conn[c].req.command = "getEK"
        /\ Failed(conn[c], "ReadPublic")
        /\ Failed(conn[c], "NV_ReadPublic")
        /\ \E k \in Entries(conn[c], {"CreatePrimary"}) : conn[c].log[k].ok
        /\ conn[c].resp.status = "ok"
        /\ conn[c].resp.ek_cert = Null

\* C17: an activateCredential request with a complete body, served after
\* others of the same kind, creates its own AIK and its own policy session:
\* one AIK CreatePrimary, one StartAuthSession and one FlushContext of that
\* session in its own record of calls, and neither handle is one an earlier
\* activation used.
C17_IndependentActivations ==
    \A c \in Conns :
        LET rec == conn[c]
            aiks == {k \in Entries(rec, {"CreatePrimary"}) : IsAikCreate(rec.log[k])}
            sessions == Entries(rec, {"StartAuthSession"})
        IN (rec.pc = "respond" /\ rec.req.command = "activateCredential"
               /\ Complete(rec.req) /\ \A op \in {"CreatePrimary", "GetName", "StartAuthSession"} :
                                            ~Failed(rec, op))
             => /\ Cardinality(aiks) = 1
                /\ \A k \in aiks : rec.log[k].h = rec.aik_handle
                /\ Cardinality(sessions) = 1
                /\ \A k \in sessions : rec.log[k].h = rec.policy_session
                /\ FlushCalls(rec, rec.policy_session) = 1
                /\ \A a \in served.activated :
                      a.aik # rec.aik_handle /\ a.session # rec.policy_session

C17_Witness ==
    \E c \in Conns :
        /\ served.activated # {}
        /\ conn[c].pc = "respond"
        /\ conn[c].req.command = "activateCredential"
        /\ conn[c].resp.status = "ok"
        /\ \E a \in served.activated : a.aik.id[2] = conn[c].aik_handle.id[2]

\* C18: the accept loop, once listening, goes on listening whatever happens
\* to a connection, and after a connection has been closed the next client
\* is accepted.
C18_AcceptLoopSurvives ==
    /\ [][svc = "listening" => svc' = "listening"]_vars
    /\ \A c \in 1..(MaxConns - 1) :
          (conn[c].pc = "closed") ~> (conn[c + 1].pc # "idle")

C18_Witness ==
    /\ platform = "windows"
    /\ svc = "listening"
    /\ conn[1].pc = "closed"
    /\ conn[2].pc = "read"

\* C19: when the TPM context could not be obtained at startup the server
\* never listens: no connection is accepted, nothing is dispatched and no
\* TPM primitive is called.
C19_NoContextNoServer ==
    tpm_ctx = "unavailable"
        => /\ svc # "listening"
           /\ \A c \in Conns : conn[c] = Fresh
           /\ tpmSeq = <<>>
           /\ served = NoneServed

C19_Witness ==
    /\ tpm_ctx = "unavailable"
    /\ svc = "failed"
    /\ \A c \in Conns : conn[c].pc = "idle"

\* C20: in getAttestationData a failed AIK creation is answered with an
\* error envelope, and an "ok" answer always carries the exported EK and the
\* name of an AIK this request created and named itself.
C20_NoPartialAttestation ==
    \A c \in Conns :
        LET rec == conn[c]
            aiks == {k \in Entries(rec, {"CreatePrimary"}) : IsAikCreate(rec.log[k])}
        IN (rec.pc = "respond" /\ rec.req.command = "getAttestationData")
             => /\ (\E k \in aiks : ~rec.log[k].ok) => rec.resp.status = "error"
                /\ rec.aik_handle = NoHandle => rec.resp.status = "error"
                /\ rec.resp.status = "ok" =>
                      /\ \E k \in aiks :
                            /\ rec.log[k].ok
                            /\ rec.log[k].h = rec.aik_handle
                            /\ \E g \in Entries(rec, {"GetName"}) :
                                  g > k /\ rec.log[g].ok /\ rec.log[g].h = rec.aik_handle
                      /\ rec.resp.aik_name = B64Encode(NameOf(rec.log[CHOOSE k \in aiks : TRUE].arg))
                      /\ rec.ek_public # NoPublic
                      /\ rec.resp.ek_pub =
                            ExportRsaEkToBase64X509(rec.ek_public.modulus, rec.ek_public.exponent)

C20_Witness ==
    \E c \in Conns :
        /\ conn[c].pc = "respond"
        /\ conn[c].req.command = "getAttestationData"
        /\ \E k \in Entries(conn[c], {"CreatePrimary"}) :
              IsAikCreate(conn[c].log[k]) /\ ~conn[c].log[k].ok
        /\ conn[c].aik_handle = NoHandle
        /\ conn[c].resp = ErrorEnvelope(<<"CreatePrimary">>)

\* load_or_create_ek has returned: the certificate read, its last step, has
\* been made.
EkLoaded(rec) == Entries(rec, {"NV_ReadPublic"}) # {}

\* C21: whatever fails in the certificate read (NV_ReadPublic, NV_Read, the
\* parse), load_or_create_ek returns the EK handle and public area with no
\* certificate, and getEK and getAttestationData, their other steps
\* succeeding, answer "ok" with a null ek_cert.
C21_CertificateOptional ==
    \A c \in Conns :
        LET rec == conn[c]
        IN EkLoaded(rec) =>
              /\ rec.ek_handle # NoHandle
              /\ rec.ek_public = EkPublicArea
              /\ rec.ek_cert => (~Failed(rec, "NV_ReadPublic") /\ ~Failed(rec, "NV_Read"))
              /\ (rec.pc = "respond" /\ rec.req.command \in {"getEK", "getAttestationData"}
                     /\ ~Failed(rec, "CreatePrimary") /\ ~Failed(rec, "GetName"))
                    => /\ rec.resp.status = "ok"
                       /\ ~rec.ek_cert => rec.resp.ek_cert = Null

C21_Witness ==
    \E c \in Conns :
        /\ conn[c].pc = "respond"
        /\ conn[c].req.command = "getAttestationData"
        /\ Failed(conn[c], "NV_Read")
        /\ conn[c].resp.status = "ok"
        /\ conn[c].resp.ek_cert = Null

\* A FlushContext call of the handler itself (on the EK or the AIK handle)
\* that failed.
HandlerFlushFailed(rec) ==
    \E i \in Entries(rec, {"FlushContext"}) :
        ~rec.log[i].ok /\ rec.log[i].h \in {rec.ek_handle, rec.aik_handle}

\* C22: in getEK and getAttestationData, with every step but the flushes
\* succeeding, the answer is "ok" and its fields are the exported EK, the
\* certificate field and the AIK name, whichever flush failed.
C22_FlushFailureKeepsAnswer ==
    \A c \in Conns :
        LET rec == conn[c]
            ek == ExportRsaEkToBase64X509(rec.ek_public.modulus, rec.ek_public.exponent)
        IN (rec.pc = "respond" /\ ~Failed(rec, "CreatePrimary") /\ ~Failed(rec, "GetName"))
             => /\ rec.req.command = "getEK" =>
                      rec.resp = [status |-> "ok", ek_public |-> ek,
                                  ek_cert |-> CertField(rec)]
                /\ rec.req.command = "getAttestationData" =>
                      rec.resp = [status |-> "ok", ek_pub |-> ek,
                                  ek_cert |-> CertField(rec),
                                  aik_name |-> B64Encode(NameOf(AikTemplate))]

C22_Witness ==
    \E c \in Conns :
        /\ conn[c].pc = "respond"
        /\ conn[c].req.command = "getAttestationData"
        /\ \A i \in Entries(conn[c], {"FlushContext"}) : ~conn[c].log[i].ok
        /\ HandlerFlushFailed(conn[c])
        /\ Cardinality(Entries(conn[c], {"FlushContext"})) = 2
        /\ conn[c].resp.status = "ok"

\* C23: a connection whose handler is past its read (handling a request,
\* holding an answer or an error envelope, writing, or hit by an exception)
\* reaches the closed channel; and a read that ends with the client's
\* disconnect or with an error closes the channel at once.
C23_ChannelEventuallyClosed ==
    /\ \A c \in Conns :
          (conn[c].pc \notin {"idle", "read", "closed"}) ~> (conn[c].pc = "closed")
    /\ [][\A c \in Conns :
            (conn[c].pc = "read" /\ wire' = wire /\ conn'[c] # conn[c])
               => conn'[c].pc = "closed"]_vars

C23_Witness ==
    /\ svc = "listening"
    /\ served.activated # {}
    /\ \A c \in Conns : conn[c].pc = "closed"

\* The fields an "ok" answer to the command has besides the status.
SuccessFields(command) ==
    CASE command = "getEK" -> {"ek_public"}
      [] command = "getAttestationData" -> {"ek_pub", "aik_name"}
      [] command = "activateCredential" -> {"decrypted_secret"}
      [] OTHER -> {}

\* C25: every envelope _handle_request returns has status "ok" or "error";
\* an "error" envelope has a message, an "ok" envelope has the success fields
\* of its command.
C25_EnvelopeShape ==
    \A c \in Conns :
        LET rec == conn[c]
        IN rec.nEnvelopes > rec.nWritten =>
              /\ rec.resp.status \in {"ok", "error"}
              /\ rec.resp.status = "error" => "message" \in DOMAIN rec.resp
              /\ rec.resp.status = "ok" =>
                    /\ rec.req.json = "object"
                    /\ rec.req.command \in KnownCommands
                    /\ SuccessFields(rec.req.command) \subseteq DOMAIN rec.resp

C25_Witness ==
    /\ served.activated # {}
    /\ \E c \in Conns :
          /\ conn[c].resp.status = "error"
          /\ conn[c].req.json = "invalid"
          /\ "message" \in DOMAIN conn[c].resp

\* The EK CreatePrimary calls of connection c's request.
EkCreates(c) ==
    {k \in Entries(conn[c], {"CreatePrimary"}) : IsEkCreate(c, conn[c].log[k])}

\* C29: the EK is created if and only if ReadPublic on the endorsement
\* hierarchy failed: no EK CreatePrimary after a ReadPublic that succeeded,
\* and after one that failed exactly one, as the very next TPM call.
C29_EkCreatedIffReadFails ==
    \A c \in Conns :
        LET rec == conn[c]
        IN /\ Cardinality(Entries(rec, {"ReadPublic"})) <= 1
           /\ \A j \in Entries(rec, {"ReadPublic"}) :
                 /\ j = 1
                 /\ rec.log[j].ok => EkCreates(c) = {}
                 /\ ~rec.log[j].ok =>
                       /\ EkCreates(c) \subseteq {j + 1}
                       /\ rec.pc # "ek_create" => EkCreates(c) = {j + 1}
                       /\ rec.pc = "ek_create" => Len(rec.log) = j
           /\ EkCreates(c) # {} => Failed(rec, "ReadPublic")

C29_Witness ==
    /\ \E c \in Conns :
          /\ conn[c].pc = "respond"
          /\ Failed(conn[c], "ReadPublic")
          /\ Cardinality(EkCreates(c)) = 1
          /\ conn[c].resp.status = "ok"
    /\ served.ek_public # {}

\* The AIK CreatePrimary calls of a request.
AikCreates(rec) ==
    {k \in Entries(rec, {"CreatePrimary"}) : IsAikCreate(rec.log[k])}

\* C30: a failed AIK CreatePrimary is the only AIK CreatePrimary of its
\* request and its last call of key creation or activation: nothing is
\* retried, and the request (getAttestationData or activateCredential) is
\* answered with an error envelope.
C30_AikFailureReported ==
    \A c \in Conns :
        LET rec == conn[c]
        IN \A k \in AikCreates(rec) :
              ~rec.log[k].ok =>
                 /\ AikCreates(rec) = {k}
                 /\ \A i \in Entries(rec, CreationAndActivationOps) : i <= k
                 /\ rec.aik_handle = NoHandle
                 /\ rec.pc = "respond"
                 /\ rec.resp.status = "error"

C30_Witness ==
    \E c \in Conns :
        /\ conn[c].pc = "respond"
        /\ conn[c].req.command = "activateCredential"
        /\ AikCreates(conn[c]) # {}
        /\ \A k \in AikCreates(conn[c]) : ~conn[c].log[k].ok
        /\ conn[c].resp = ErrorEnvelope(<<"ActivateCredential failed: ", "CreatePrimary">>)

\* C28: the credential blob ActivateCredential is called with is the decoded
\* hmac field followed by the decoded enc field, and the encrypted secret is
\* the decoded encrypted_secret field.
C28_BlobIsHmacThenEnc ==
    \A c \in Conns :
        LET rec == conn[c]
        IN \A i \in Entries(rec, {"ActivateCredential"}) :
              /\ RequiredFields \subseteq rec.req.fields
              /\ rec.log[i].arg.credential_blob =
                    B64Decode(Field(rec.req, "hmac")) \o B64Decode(Field(rec.req, "enc"))
              /\ rec.log[i].arg.credential_blob = <<"hmac", "enc">>
              /\ rec.log[i].arg.encrypted_secret =
                    B64Decode(Field(rec.req, "encrypted_secret"))

C28_Witness ==
    \E c \in Conns :
        /\ conn[c].pc = "ac_finally"
        /\ \E i \in Entries(conn[c], {"ActivateCredential"}) :
              /\ conn[c].log[i].ok
              /\ conn[c].log[i].arg.credential_blob = <<"hmac", "enc">>
              /\ conn[c].log[i].arg.encrypted_secret = <<"encrypted_secret">>

\* C26: the read loop of read_ek_cert_from_nv ends for every declared size;
\* each NV_Read asks for at least one and at most 1024 bytes, the first at
\* offset 0 and each next one where the one before ended, none beyond the
\* declared size, and when the loop is left the sizes asked for add up to
\* the declared size.
C26_ReadLoopCoversDeclaredSize ==
    /\ <>(call.pc = "done")
    /\ [](LET r == call.reads
               n == Len(r)
           IN /\ \A i \in 1..n :
                    /\ r[i].size \in 1..MaxReadSize
                    /\ r[i].offset = IF i = 1 THEN 0 ELSE r[i - 1].offset + r[i - 1].size
                    /\ r[i].offset + r[i].size <= call.cert_size
              /\ (call.pc = "done" /\ ~call.result.none) =>
                    /\ call.cert_size = Len(call.nv)
                    /\ call.cert_size = IF n = 0 THEN 0 ELSE r[n].offset + r[n].size
                    /\ call.cert_data = call.nv)

C26_Witness ==
    /\ call.pc = "done"
    /\ ~call.result.none
    /\ Len(call.nv) = 2 * MaxReadSize + 1
    /\ Len(call.reads) = 3
    /\ call.reads[3] = [size |-> 1, offset |-> 2 * MaxReadSize]

\* C27 (as stated): the call returns the assembled bytes without their first
\* two exactly when those two, read as a big-endian integer, plus two equal
\* the total length, and the assembled bytes as they are otherwise.
C27_PrefixStrippedIffLengthMatches ==
    (call.pc = "done" /\ ~call.result.none) =>
        LET s == call.cert_data
            matches == Len(s) >= 2 /\ s[1] * 256 + s[2] + 2 = Len(s)
        IN call.result.bytes = IF matches THEN SubSeq(s, 3, Len(s)) ELSE s

\* C24: on the socket, a connection whose client has sent a whole frame, the
\* newline included, has its response written, whatever the other accepted
\* connections have sent or not sent.
C24_OverlappingConnectionsServed ==
    \A c \in Conns :
        (platform = "unix" /\ conn[c].pc = "read" /\ HasNewline(conn[c].buffer \o pipe[c]))
            ~> (conn[c].nWritten = 1)

C24_Witness ==
    /\ platform = "unix"
    /\ conn[1].pc = "read"
    /\ ~HasNewline(conn[1].received \o pipe[1])
    /\ conn[2].pc = "drain"
    /\ conn[2].nWritten = 1

\* C31: a key exported from a public area with exponent 0 has exponent
\* 65537, and one exported from any other exponent has that exponent; the
\* modulus is the big-endian value of the modulus bytes either way.
C31_ExponentDefaulted ==
    call.pc = "returned" =>
        LET key == B64Decode(call.text)
        IN /\ call.exponent = 0 => key.e = 65537
           /\ call.exponent # 0 => key.e = call.exponent
           /\ key.n = IntFromBytes(call.modulus)

C31_Witness ==
    /\ call.pc = "returned"
    /\ call.exponent = 3
    /\ call.modulus = <<1, 0, 1>>
    /\ B64Decode(call.text) = [n |-> 65537, e |-> 3]

\* FlushContext calls of the request on handle h, failed ones included.
FlushesOf(rec, h) == {i \in Entries(rec, {"FlushContext"}) : rec.log[i].h = h}

\* C32 (as stated): in activateCredential a failed FlushContext on the EK
\* handle is followed by a FlushContext on the AIK handle of the request.
C32_AikFlushedAfterEkFlushFails ==
    \A c \in Conns :
        LET rec == conn[c]
        IN (/\ rec.pc = "respond"
            /\ rec.req.command = "activateCredential"
            /\ \E i \in FlushesOf(rec, rec.ek_handle) : ~rec.log[i].ok)
           => FlushesOf(rec, rec.aik_handle) # {}

\* The handles call i of the request is invoked with: the hierarchy or
\* parent, the object, the session.
HandlesUsed(rec, i) ==
    LET e == rec.log[i]
    IN CASE e.op \in {"ReadPublic", "CreatePrimary"} -> {Endorsement}
         [] e.op = "PolicySecret" -> {Endorsement, e.h}
         [] e.op = "ActivateCredential" -> {rec.aik_handle, rec.ek_handle, e.h}
         [] e.op = "StartAuthSession" -> {}
         [] OTHER -> {e.h}

\* C33 (as stated): every FlushContext call is on a handle CreatePrimary or
\* StartAuthSession returned earlier in the same request, and on one that
\* no earlier FlushContext call of the request was made on.
C33_FlushOnlyOwnLiveHandles ==
    \A c \in Conns :
        LET rec == conn[c]
        IN \A i \in Entries(rec, {"FlushContext"}) :
              /\ \E k \in Before(rec, i, {"CreatePrimary", "StartAuthSession"}) :
                    rec.log[k].ok /\ rec.log[k].h = rec.log[i].h
              /\ \A j \in Before(rec, i, {"FlushContext"}) : rec.log[j].h # rec.log[i].h

\* C34 (as stated): no TPM primitive is invoked with a handle that an
\* earlier call of the request passed to FlushContext.
C34_NoUseAfterFlush ==
    \A c \in Conns :
        LET rec == conn[c]
        IN \A i \in 1..Len(rec.log) :
              \A j \in Before(rec, i, {"FlushContext"}) :
                  rec.log[j].h \notin HandlesUsed(rec, i)

\* C35: while no newline has been received nothing is dispatched, no TPM
\* primitive is called and nothing is written; and when the read then ends
\* with the client's disconnect (or an error), bringing no byte, the step
\* closes the channel and does nothing else.
C35_DisconnectBeforeNewline ==
    /\ [](\A c \in Conns :
            conn[c].pc = "read" =>
               /\ ~HasNewline(conn[c].received)
               /\ conn[c].nDispatched = 0
               /\ conn[c].nWritten = 0
               /\ conn[c].log = <<>>
               /\ c \notin {tpmSeq[i] : i \in 1..Len(tpmSeq)})
    /\ [][\A c \in Conns :
            (/\ conn[c].pc = "read"
             /\ conn'[c] # conn[c]
             /\ Len(conn'[c].received) <= Len(conn[c].received))
               => /\ conn'[c] = Closed(conn[c])
                  /\ tpmSeq' = tpmSeq
                  /\ served' = served]_vars

\* One byte was ever sent, the first of a frame, and its connection is closed.
C35_Witness ==
    /\ wire = 1
    /\ conn[1].pc = "closed"
    /\ pipe[1] = <<>>
    /\ \A d \in Conns \ {1} : conn[d].pc = "idle"
    /\ tpmSeq = <<>>
    /\ served = NoneServed

\* A request no handler is called for: not JSON, JSON but not an object, or
\* an object whose command is unknown or absent.
Unroutable(req) ==
    \/ req.json \in {"invalid", "nonobject"}
    \/ req.json = "object" /\ req.command \notin KnownCommands

\* C36: a request that is not JSON, not an object, or has an unknown or no
\* command has its envelope straight away, with no TPM primitive called for
\* it; the step that handles it and the step that answers it leave the
\* record of TPM calls and the TPM context as they were.
C36_UnroutableLeavesTpmAlone ==
    /\ [](\A c \in Conns :
            Unroutable(conn[c].req) =>
               /\ conn[c].pc = "respond"
               /\ conn[c].resp.status = "error"
               /\ conn[c].log = <<>>
               /\ c \notin {tpmSeq[i] : i \in 1..Len(tpmSeq)})
    /\ [][(\E c \in Conns : Unroutable(conn[c].req) \/ Unroutable(conn'[c].req))
             => (tpmSeq' = tpmSeq /\ tpm_ctx' = tpm_ctx)]_vars

C36_Witness ==
    \E c \in Conns :
        /\ conn[c].req = NonObject
        /\ conn[c].pc = "respond"
        /\ conn[c].resp = ErrorEnvelope(<<AttrError.msg>>)
        /\ tpmSeq # <<>>

\* C38: an activateCredential request with all four fields of which
\* encrypted_secret, hmac or enc does not decode is answered with an error
\* envelope, and no TPM primitive is called for it.
C38_UndecodableFieldNoTpmCall ==
    \A c \in Conns :
        LET rec == conn[c]
        IN (/\ rec.req.json = "object"
            /\ rec.req.command = "activateCredential"
            /\ rec.req.fields = AllFields
            /\ rec.req.undecodable \cap {"encrypted_secret", "hmac", "enc"} # {})
           => /\ rec.pc \in {"ac_fields", "respond"}
              /\ rec.log = <<>>
              /\ c \notin {tpmSeq[i] : i \in 1..Len(tpmSeq)}
              /\ rec.pc = "respond" =>
                    rec.resp = ErrorEnvelope(<<"ActivateCredential failed: ", B64Error.msg>>)

C38_Witness ==
    \E c \in Conns :
        /\ conn[c].pc = "respond"
        /\ conn[c].req.command = "activateCredential"
        /\ conn[c].req.fields = AllFields
        /\ conn[c].req.undecodable = {"enc"}
        /\ conn[c].resp.status = "error"
        /\ conn[c].log = <<>>

\* The outcomes the TPM gave, call by call.
Outcomes(calls) == [i \in 1..Len(calls) |-> calls[i].ok]

\* C39: two activateCredential requests with all four fields that differ
\* only in the value of credential_blob, and to which the TPM gives the
\* same outcomes, make the same TPM calls with the same arguments and get
\* the same response.
C39_BlobValueIgnored ==
    \A c \in Conns :
        (/\ call # NoCall
         /\ conn[c].pc = "respond"
         /\ [conn[c].req EXCEPT !.blob = call.req.blob] = call.req
         /\ Outcomes(CallsOf(conn[c])) = Outcomes(call.calls))
        => /\ CallsOf(conn[c]) = call.calls
           /\ conn[c].resp = call.resp

C39_Witness ==
    \E c \in Conns :
        /\ call # NoCall
        /\ conn[c].pc = "respond"
        /\ conn[c].req.blob # call.req.blob
        /\ [conn[c].req EXCEPT !.blob = call.req.blob] = call.req
        /\ conn[c].resp.status = "ok"
        /\ conn[c].resp = call.resp
        /\ CallsOf(conn[c]) = call.calls
        /\ \E i \in 1..Len(call.calls) : call.calls[i].op = "ActivateCredential"

\* C37 (as stated): once stop has closed the TPM context, no step
\* dispatches a request and no step calls a TPM primitive.
C37_NothingAfterStop ==
    [][tpm_ctx = "closed" =>
          \A c \in Conns :
             /\ conn'[c].nDispatched <= conn[c].nDispatched
             /\ Len(conn'[c].log) <= Len(conn[c].log)]_vars

====
